---- MODULE Spec2Model ----
(***************************************************************************)
(* Model of score_msa.py: the per-column scorer of a codon-level multiple  *)
(* sequence alignment.  The script builds one disorder track per aligned   *)
(* sequence, opens the report and writes its header, then scores the codon *)
(* columns left to right, one report line per column.                      *)
(*                                                                         *)
(* Numbers.  Codon frequencies are the rationals f/12 (f an integer), so   *)
(* that 1/len(synonyms) is exact for every synonym group (1,2,3,4,6).  A   *)
(* Python float n/d is the reduced pair <<"frac", n, d>>.  A float sum of  *)
(* logarithms ln x1 + ... + ln xg divided by g is the float 0.0, written   *)
(* <<"frac", 0, 1>>, when every term is np.log(1.0); it is the non-zero    *)
(* float <<"ln", n, d, g>>, n/d the reduced product x1*...*xg, when that   *)
(* product is not 1; and when the product is 1 although some term is not   *)
(* np.log(1.0) the rounding of the float additions decides between 0.0 and *)
(* a residue of a few 1e-17, written <<"ln", 1, 1, g>>: the model takes    *)
(* either.  np.log(0.0) is -inf, so a sum with a zero ratio is -inf,       *)
(* written <<"ln", 0, 1, g>>; +inf is <<"ln", 1, 0, g>> and -inf - (-inf)  *)
(* is <<"nan">>.  A quotient of two such means is kept symbolic as         *)
(* <<"quot", x, y>>.                                                       *)
(***************************************************************************)
EXTENDS Integers, Sequences, FiniteSets, TLC

VARIABLES
    alignments,         \* the MSA: a sequence of [tax_id, seq], seq a sequence of codons
    nfiles,             \* tax_id -> number of *_dist.csv files in its directory
    vsl2,               \* the predictor's answers: vsl2[j][r] = <<score, letter>> of residue r of call j
    disorder_strength,  \* list of strength tracks, one per sequence already annotated
    disorder_letters,   \* list of letter tracks, one per sequence already annotated
    out_fh,             \* the lines written to the report so far
    i,                  \* nucleotide offset of the next codon column
    pc                  \* "tracks", "open", "columns", "closed", or how the run died

vars == <<alignments, nfiles, vsl2, disorder_strength, disorder_letters, out_fh, i, pc>>

(***************************************************************************)
(* Bounds of the model.                                                    *)
(***************************************************************************)
MaxRows == 2        \* sequences of a multi-column alignment (Spec)
MaxCols == 2        \* codon columns of a multi-column alignment (Spec)
MaxColRows == 4     \* sequences of a one-column alignment (SpecCol)
MaxCodons == 4      \* codons of the sequence annotated in SpecTrack

(***************************************************************************)
(* Static tables.                                                          *)
(***************************************************************************)
bad_codons == {"...", "---", "NNN"}

stop_codons == {"TAA", "TAG", "TGA"}

tt_11 ==
    ("ATA" :> "I") @@ ("ATC" :> "I") @@ ("ATT" :> "I") @@ ("ATG" :> "M") @@
    ("ACA" :> "T") @@ ("ACC" :> "T") @@ ("ACG" :> "T") @@ ("ACT" :> "T") @@
    ("AAC" :> "N") @@ ("AAT" :> "N") @@ ("AAA" :> "K") @@ ("AAG" :> "K") @@
    ("AGC" :> "S") @@ ("AGT" :> "S") @@ ("AGA" :> "R") @@ ("AGG" :> "R") @@
    ("CTA" :> "L") @@ ("CTC" :> "L") @@ ("CTG" :> "L") @@ ("CTT" :> "L") @@
    ("CCA" :> "P") @@ ("CCC" :> "P") @@ ("CCG" :> "P") @@ ("CCT" :> "P") @@
    ("CAC" :> "H") @@ ("CAT" :> "H") @@ ("CAA" :> "Q") @@ ("CAG" :> "Q") @@
    ("CGA" :> "R") @@ ("CGC" :> "R") @@ ("CGG" :> "R") @@ ("CGT" :> "R") @@
    ("GTA" :> "V") @@ ("GTC" :> "V") @@ ("GTG" :> "V") @@ ("GTT" :> "V") @@
    ("GCA" :> "A") @@ ("GCC" :> "A") @@ ("GCG" :> "A") @@ ("GCT" :> "A") @@
    ("GAC" :> "D") @@ ("GAT" :> "D") @@ ("GAA" :> "E") @@ ("GAG" :> "E") @@
    ("GGA" :> "G") @@ ("GGC" :> "G") @@ ("GGG" :> "G") @@ ("GGT" :> "G") @@
    ("TCA" :> "S") @@ ("TCC" :> "S") @@ ("TCG" :> "S") @@ ("TCT" :> "S") @@
    ("TTC" :> "F") @@ ("TTT" :> "F") @@ ("TTA" :> "L") @@ ("TTG" :> "L") @@
    ("TAC" :> "Y") @@ ("TAT" :> "Y") @@ ("TAA" :> "_") @@ ("TAG" :> "O") @@
    ("TGC" :> "C") @@ ("TGT" :> "C") @@ ("TGA" :> "U") @@ ("TGG" :> "W")

\* flip_trans_table(tt_11): amino acid -> the codons that translate to it
tt_flip ==
    [aa \in {tt_11[c] : c \in DOMAIN tt_11} |-> {c \in DOMAIN tt_11 : tt_11[c] = aa}]

\* Bio.SubsMat.MatrixInfo.blosum62, restricted to I, K, M, W.  The dict holds one
\* key per unordered pair (the lower triangle of the matrix in its row order
\* ...I L K M F P S T W...); the markers '_', 'O', 'U' are in no key.
matrix ==
    (<<"I", "I">> :> 4)  @@
    (<<"K", "I">> :> -3) @@ (<<"K", "K">> :> 5)  @@
    (<<"M", "I">> :> 1)  @@ (<<"M", "K">> :> -1) @@ (<<"M", "M">> :> 5) @@
    (<<"W", "I">> :> -3) @@ (<<"W", "K">> :> -3) @@ (<<"W", "M">> :> -1) @@
    (<<"W", "W">> :> 11)

(***************************************************************************)
(* Inputs: taxonomy IDs and their codon-usage tables (in twelfths).        *)
(***************************************************************************)
TaxIds == {"9606", "10090"}

\* the codon that carries the bulk of its synonym group in the biased table
Preferred ==
    {"ATT", "ACC", "AAC", "AAG", "AGC", "CGT", "CTG", "CCG", "CAC",
     "CAG", "GTG", "GCG", "GAT", "GAA", "GGC", "TTC", "TAC", "TGC"}

\* the *_dist.csv of a taxonomy ID as a dict codon -> frequency:
\* 9606 uses one codon of each group for all but 1/12 per other synonym,
\* except for isoleucine (ATT 9/12, ATA 2/12, ATC 1/12); 10090 uses the
\* synonyms of every group uniformly, except those of isoleucine
\* (ATA 8/12, ATC 2/12, ATT 2/12) and of lysine, which its table lists
\* with frequency 0 (AAA 0, AAG 0)
DistFile ==
    [taxonomy_id \in TaxIds |->
        [codon \in DOMAIN tt_11 |->
            LET n == Cardinality(tt_flip[tt_11[codon]])
            IN  IF taxonomy_id = "9606"
                THEN IF n = 1 THEN 12
                     ELSE IF tt_11[codon] = "I"
                          THEN (IF codon = "ATT" THEN 9 ELSE IF codon = "ATA" THEN 2 ELSE 1)
                     ELSE IF codon \in Preferred THEN 12 - (n - 1) ELSE 1
                ELSE IF tt_11[codon] = "I" THEN (IF codon = "ATA" THEN 8 ELSE 2)
                ELSE IF tt_11[codon] = "K" THEN 0
                ELSE 12 \div n]]

(***************************************************************************)
(* Arithmetic helpers for the float representation.                        *)
(***************************************************************************)
RECURSIVE GCD(_, _)
GCD(a, b) == IF b = 0 THEN a ELSE GCD(b, a % b)

Abs(x) == IF x < 0 THEN -x ELSE x

\* the float n/d (d > 0)
Frac(n, d) ==
    LET g == GCD(Abs(n), d)
    IN  <<"frac", n \div g, d \div g>>

\* the non-zero float (ln(n/d))/g for a rational n/d other than 1
MeanLn(n, d, g) ==
    LET k == GCD(n, d)
    IN  <<"ln", n \div k, d \div k, g>>

\* x == 0.0
IsZero(x) == x[1] = "frac" /\ x[2] = 0

\* float("nan")
NaN == <<"nan">>

\* x == -inf
IsNegInf(x) == x[1] = "ln" /\ x[2] = 0

\* a frequency f/12 that a float holds exactly
Dyadic(f) == f % 3 = 0

RECURSIVE SumSet(_, _)
SumSet(S, f) ==
    IF S = {} THEN 0
    ELSE LET c == CHOOSE c \in S : TRUE
         IN  f[c] + SumSet(S \ {c}, f)

(***************************************************************************)
(* fetch_org_distribution and calc_freq_score.                             *)
(***************************************************************************)
\* a fetch that only refuses an empty directory and reads the first file otherwise
fetch_first_file(taxonomy_id) ==
    IF nfiles[taxonomy_id] = 0
    THEN [exit |-> TRUE, codon_dist |-> <<>>]
    ELSE [exit |-> FALSE, codon_dist |-> DistFile[taxonomy_id]]

\* [exit |-> TRUE] when the directory holds zero or several *_dist.csv files
fetch_org_distribution(taxonomy_id) ==
    IF nfiles[taxonomy_id] # 1
    THEN [exit |-> TRUE, codon_dist |-> <<>>]
    ELSE [exit |-> FALSE, codon_dist |-> DistFile[taxonomy_id]]

\* 1 if observed (twelfths) >= 1/len(flipped_tt[aa]), else 0
calc_freq_score(aa, observed) ==
    IF observed * Cardinality(tt_flip[aa]) >= 12 THEN 1 ELSE 0

(***************************************************************************)
(* Disorder tracks (one loop iteration per aligned sequence).              *)
(***************************************************************************)
Dash == <<"-">>                 \* the sentinel '-' in a strength track
Float(x) == <<"float", x>>      \* a strength the predictor returned

\* the offsets (from 0) of the bad codons of seq, ascending
RECURSIVE bad_indexes(_)
bad_indexes(seq) ==
    IF seq = <<>> THEN <<>>
    ELSE LET n == Len(seq)
             rest == bad_indexes(SubSeq(seq, 1, n - 1))
         IN  IF seq[n] \in bad_codons THEN Append(rest, n - 1) ELSE rest

\* the gapless translation of seq, stop codons as 'A'
RECURSIVE aa_seq(_)
aa_seq(seq) ==
    IF seq = <<>> THEN <<>>
    ELSE LET n == Len(seq)
             rest == aa_seq(SubSeq(seq, 1, n - 1))
         IN  IF seq[n] \in bad_codons THEN rest
             ELSE IF seq[n] \in stop_codons THEN Append(rest, "A")
             ELSE Append(rest, tt_11[seq[n]])

\* run_vsl2b(aa)[2:4] on the j-th call: one score and one letter per residue
run_vsl2b(j, aa) ==
    [scores  |-> [r \in 1..Len(aa) |-> Float(vsl2[j][r][1])],
     letters |-> [r \in 1..Len(aa) |-> vsl2[j][r][2]]]

\* a list.insert that lands one position late
ListInsertLate(list, index, x) ==
    IF index + 1 >= Len(list) THEN Append(list, x)
    ELSE SubSeq(list, 1, index + 1) \o <<x>> \o SubSeq(list, index + 2, Len(list))

\* list.insert(index, x): before position index, at the end when index > len
ListInsert(list, index, x) ==
    IF index >= Len(list) THEN Append(list, x)
    ELSE SubSeq(list, 1, index) \o <<x>> \o SubSeq(list, index + 1, Len(list))

\* for index in bad_indexes: list.insert(index, x)
RECURSIVE InsertAll(_, _, _)
InsertAll(list, indexes, x) ==
    IF indexes = <<>> THEN list
    ELSE InsertAll(ListInsert(list, Head(indexes), x), Tail(indexes), x)

BuildTrack ==
    /\ pc = "tracks"
    /\ LET j == Len(disorder_strength) + 1
           seq == alignments[j].seq
           res == run_vsl2b(j, aa_seq(seq))
       IN  /\ disorder_strength' =
                 Append(disorder_strength, InsertAll(res.scores, bad_indexes(seq), Dash))
           /\ disorder_letters' =
                 Append(disorder_letters, InsertAll(res.letters, bad_indexes(seq), "-"))
           /\ pc' = IF j = Len(alignments) THEN "open" ELSE "tracks"
    /\ UNCHANGED <<alignments, nfiles, vsl2, out_fh, i>>

(***************************************************************************)
(* The report.                                                             *)
(***************************************************************************)
Header ==
    <<"Identity", "Percent Identity", "Avg Blosum62 Score", "Avg Frequency Score",
      "Avg Expected Frequency Score", "Log Avg Frequency Score Ratio",
      "Avg Frequency Ratio", "Avg Expected Frequency Ratio", "Relative Difference",
      "Difference", "Fraction Aligned", "Fraction Disordered", "Avg Disorder Strength">>

X == <<"X">>

\* a placeholder line one X short
PlaceholderRowShort == <<X, X, X, X, X, X, X, X, X, X, X, X>>

PlaceholderRow == <<X, X, X, X, X, X, X, X, X, X, X, X, X>>

OpenOutput ==
    /\ pc = "open"
    /\ out_fh' = <<Header>>
    /\ i' = 0
    /\ pc' = "columns"
    /\ UNCHANGED <<alignments, nfiles, vsl2, disorder_strength, disorder_letters>>

(***************************************************************************)
(* Scoring one codon column (one iteration of the column loop).            *)
(***************************************************************************)
\* a slice that ignores the offset: alignments[:, 0:3]
ColumnFirst(ci) == [j \in 1..Len(alignments) |-> alignments[j].seq[1]]

\* alignments[:, i:i+3]: the codon of every row at nucleotide offset ci
Column(ci) == [j \in 1..Len(alignments) |-> alignments[j].seq[ci \div 3 + 1]]

\* aa_counts is a dict in insertion order: a sequence of <<key, count>>
HasKey(d, key) == \E n \in 1..Len(d) : d[n][1] = key

DictGet(d, key) == d[CHOOSE n \in 1..Len(d) : d[n][1] = key][2]

\* aa_counts[key] += 1, or aa_counts[key] = 1 on KeyError
Incr(d, key) ==
    IF HasKey(d, key)
    THEN [n \in 1..Len(d) |-> IF d[n][1] = key THEN <<key, d[n][2] + 1>> ELSE d[n]]
    ELSE Append(d, <<key, 1>>)

\* a maximum that keeps the last key holding the largest count
DictMaxLast(d) ==
    LET n == CHOOSE n \in 1..Len(d) :
                 /\ \A m \in 1..Len(d) : d[m][2] <= d[n][2]
                 /\ \A m \in (n + 1)..Len(d) : d[m][2] < d[n][2]
    IN  d[n][1]

\* max(aa_counts, key=aa_counts.get): the first key holding the largest count
DictMax(d) ==
    LET n == CHOOSE n \in 1..Len(d) :
                 /\ \A m \in 1..Len(d) : d[m][2] <= d[n][2]
                 /\ \A m \in 1..(n - 1) : d[m][2] < d[n][2]
    IN  d[n][1]

\* a lookup that scores 0 instead of trying the mirrored key
MatrixScoreNoMirror(aa1, aa2) ==
    IF <<aa1, aa2>> \in DOMAIN matrix THEN [exc |-> "", score |-> matrix[<<aa1, aa2>>]]
    ELSE IF <<aa2, aa1>> \in DOMAIN matrix THEN [exc |-> "", score |-> 0]
    ELSE [exc |-> "KeyError", score |-> 0]

\* matrix[aa1, aa2], on KeyError matrix[aa2, aa1], on KeyError again the run dies
MatrixScore(aa1, aa2) ==
    IF <<aa1, aa2>> \in DOMAIN matrix THEN [exc |-> "", score |-> matrix[<<aa1, aa2>>]]
    ELSE IF <<aa2, aa1>> \in DOMAIN matrix THEN [exc |-> "", score |-> matrix[<<aa2, aa1>>]]
    ELSE [exc |-> "KeyError", score |-> 0]

\* for k in range(j + 1, total_rows): the scores of aa1 against the good rows below
RECURSIVE PairLoop(_, _, _)
PairLoop(column, k, aa1) ==
    IF k > Len(column) THEN [exc |-> "", score |-> 0]
    ELSE IF column[k] \in bad_codons THEN PairLoop(column, k + 1, aa1)
    ELSE LET s == MatrixScore(aa1, tt_11[column[k]])
             rest == PairLoop(column, k + 1, aa1)
         IN  IF s.exc # "" THEN s
             ELSE IF rest.exc # "" THEN rest
             ELSE [exc |-> "", score |-> s.score + rest.score]

ColumnStart ==
    [exc |-> "", aa_counts |-> << <<"x", 0>> >>, running_blosum_score |-> 0,
     disorder_count |-> 0, disorder_strength_sum |-> 0,
     observed_freq_score_sum |-> 0, expected_freq_score_sum |-> 0,
     expected_exact |-> TRUE,
     log_observed_freq_ratio_sum |-> [n |-> 1, d |-> 1, exact |-> TRUE],
     log_expected_freq_ratio_sum |-> [n |-> 1, d |-> 1, exact |-> TRUE],
     good_rows |-> 0]

\* sum += np.log(n2/d2): the sum keeps the reduced product n/d of the ratios
\* added so far, and whether every term was np.log(1.0) = 0.0, the ratio
\* being 1 and computed without rounding
LogAdd(sum, n2, d2, exact) ==
    LET n == sum.n * n2
        d == sum.d * d2
        g == GCD(n, d)
    IN  [n |-> n \div g, d |-> d \div g, exact |-> sum.exact /\ exact /\ n2 = d2]

\* the body of "for j, row in enumerate(column)" for row j (from 1)
RowStep(acc, column, ci, j) ==
    LET codon1 == column[j]
    IN  IF codon1 \in bad_codons
        THEN [acc EXCEPT !.aa_counts = Incr(@, "x")]
        ELSE
        LET aa1 == tt_11[codon1]
            dis_letter == disorder_letters[j][ci \div 3 + 1]
            dis_score == disorder_strength[j][ci \div 3 + 1]
            fetched == fetch_org_distribution(alignments[j].tax_id)
            source_codon_dist == fetched.codon_dist
            observed_freq == source_codon_dist[codon1]
            n_syn == Cardinality(tt_flip[aa1])
            expected_score ==
                SumSet(tt_flip[aa1],
                       [codon \in tt_flip[aa1] |->
                           calc_freq_score(aa1, source_codon_dist[codon])
                               * source_codon_dist[codon]])
            squares ==
                SumSet(tt_flip[aa1],
                       [codon \in tt_flip[aa1] |->
                           source_codon_dist[codon] * source_codon_dist[codon]])
            pairs == PairLoop(column, j + 1, aa1)
        IN  IF dis_score = Dash THEN [acc EXCEPT !.exc = "TypeError"]
            ELSE IF fetched.exit THEN [acc EXCEPT !.exc = "exit"]
            ELSE IF pairs.exc # "" THEN [acc EXCEPT !.exc = pairs.exc]
            ELSE [acc EXCEPT
                    !.aa_counts = Incr(@, aa1),
                    !.good_rows = @ + 1,
                    !.disorder_count = IF dis_letter = "D" THEN @ + 1 ELSE @,
                    !.disorder_strength_sum = @ + dis_score[2],
                    !.observed_freq_score_sum = @ + calc_freq_score(aa1, observed_freq),
                    !.expected_freq_score_sum = @ + expected_score,
                    !.expected_exact =
                        @ /\ \A codon \in tt_flip[aa1] :
                                calc_freq_score(aa1, source_codon_dist[codon]) = 1
                                    => Dyadic(source_codon_dist[codon]),
                    !.log_observed_freq_ratio_sum =
                        LogAdd(@, n_syn * observed_freq, 12, Dyadic(observed_freq)),
                    !.log_expected_freq_ratio_sum =
                        LogAdd(@, n_syn * squares, 144,
                               \A codon \in tt_flip[aa1] : Dyadic(source_codon_dist[codon])),
                    !.running_blosum_score = @ + pairs.score]

\* the row loop over rows j..total_rows; it stops at the first row that kills the run
RECURSIVE RowLoop(_, _, _, _)
RowLoop(acc, column, ci, j) ==
    IF j > Len(column) \/ acc.exc # "" THEN acc
    ELSE RowLoop(RowStep(acc, column, ci, j), column, ci, j + 1)

\* the gate: no informational codon, or the most common bucket is the error bucket
Degenerate(acc) == acc.good_rows = 0 \/ DictMax(acc.aa_counts) = "x"

\* a relative difference without the special case
RelativeDiffAlwaysDivides(avg_log_freq_ratio, avg_log_expected_freq_ratio, difference) ==
    <<"quot", difference, avg_log_expected_freq_ratio>>

\* 0.0 when both averages are 0.0, else difference / avg_log_expected_freq_ratio
RelativeDiff(avg_log_freq_ratio, avg_log_expected_freq_ratio, difference) ==
    IF IsZero(avg_log_expected_freq_ratio) /\ IsZero(avg_log_freq_ratio)
    THEN Frac(0, 1)
    ELSE <<"quot", difference, avg_log_expected_freq_ratio>>

\* sum / good_rows for a sum of logs; rounds_to_zero is the outcome of the
\* float additions when the terms cancel without each being 0.0
LogMean(sum, good_rows, rounds_to_zero) ==
    IF sum.n # sum.d THEN <<"ln", sum.n, sum.d, good_rows>>
    ELSE IF sum.exact \/ rounds_to_zero THEN Frac(0, 1)
    ELSE <<"ln", 1, 1, good_rows>>

\* avg_log_freq_ratio - avg_log_expected_freq_ratio
Difference(a, b, good_rows, rounds_to_zero) ==
    IF IsNegInf(a) /\ IsNegInf(b) THEN NaN
    ELSE IF IsZero(b) THEN a
    ELSE IF IsZero(a) THEN <<"ln", b[3], b[2], good_rows>>
    ELSE IF a[2] * b[3] # a[3] * b[2] THEN MeanLn(a[2] * b[3], a[3] * b[2], good_rows)
    ELSE IF rounds_to_zero THEN Frac(0, 1)
    ELSE <<"ln", 1, 1, good_rows>>

\* np.log(avg_freq_score / avg_expected_freq_score), both sums over the same good_rows
LogRatio(observed_sum, expected_sum, exact, rounds_to_zero) ==
    IF 12 * observed_sum # expected_sum THEN MeanLn(12 * observed_sum, expected_sum, 1)
    ELSE IF exact \/ rounds_to_zero THEN Frac(0, 1)
    ELSE <<"ln", 1, 1, 1>>

\* the outcomes float rounding can have in a column: a flag may be TRUE only
\* where the exact value is 0 and the float operations are not exact
Roundings(acc) ==
    LET lo == acc.log_observed_freq_ratio_sum
        le == acc.log_expected_freq_ratio_sum
    IN  {r \in [observed : BOOLEAN, expected : BOOLEAN,
                difference : BOOLEAN, score_ratio : BOOLEAN] :
            /\ r.observed => (lo.n = lo.d /\ ~lo.exact)
            /\ r.expected => (le.n = le.d /\ ~le.exact)
            /\ r.difference => (/\ lo.n * le.d = lo.d * le.n
                                /\ lo.n # 0 /\ ~lo.exact /\ ~le.exact)
            /\ r.score_ratio => (/\ 12 * acc.observed_freq_score_sum
                                        = acc.expected_freq_score_sum
                                 /\ ~acc.expected_exact)}

\* the 13 fields of a scored column, in the order they are written
ScoredRow(acc, total_rows, rounding) ==
    LET identity == DictMax(acc.aa_counts)
        good_rows == acc.good_rows
        percent_id == Frac(DictGet(acc.aa_counts, identity), good_rows)
        fraction_aligned == Frac(good_rows, total_rows)
        num_comparisons == ((good_rows - 1) * good_rows) \div 2
        blosum_avg == Frac(acc.running_blosum_score, num_comparisons)
        fraction_disordered == Frac(acc.disorder_count, good_rows)
        avg_disorder_strength == Frac(acc.disorder_strength_sum, 10 * good_rows)
        avg_freq_score == Frac(acc.observed_freq_score_sum, good_rows)
        avg_expected_freq_score == Frac(acc.expected_freq_score_sum, 12 * good_rows)
        log_avg_freq_score_ratio ==
            LogRatio(acc.observed_freq_score_sum, acc.expected_freq_score_sum,
                     acc.expected_exact, rounding.score_ratio)
        avg_log_freq_ratio ==
            LogMean(acc.log_observed_freq_ratio_sum, good_rows, rounding.observed)
        avg_log_expected_freq_ratio ==
            LogMean(acc.log_expected_freq_ratio_sum, good_rows, rounding.expected)
        difference ==
            Difference(avg_log_freq_ratio, avg_log_expected_freq_ratio, good_rows,
                       rounding.difference)
        relative_diff ==
            RelativeDiff(avg_log_freq_ratio, avg_log_expected_freq_ratio, difference)
    IN  << <<"aa", identity>>, percent_id, blosum_avg, avg_freq_score,
           avg_expected_freq_score, log_avg_freq_score_ratio, avg_log_freq_ratio,
           avg_log_expected_freq_ratio, relative_diff, difference, fraction_aligned,
           fraction_disordered, avg_disorder_strength >>

\* the accumulators after the row loop of the column at offset ci
ColumnAcc(ci) == RowLoop(ColumnStart, Column(ci), ci, 1)

\* what one iteration of the column loop does: the line it writes, or how it dies
ColumnResult(ci, rounding) ==
    LET column == Column(ci)
        acc == ColumnAcc(ci)
    IN  IF acc.exc # "" THEN [exc |-> acc.exc, line |-> <<>>]
        ELSE IF Degenerate(acc) THEN [exc |-> "", line |-> PlaceholderRow]
        ELSE IF acc.good_rows = 1 \/ acc.expected_freq_score_sum = 0
             THEN [exc |-> "ZeroDivisionError", line |-> <<>>]
        ELSE [exc |-> "", line |-> ScoredRow(acc, Len(column), rounding)]

\* alignments.get_alignment_length()
AlignmentLength == 3 * Len(alignments[1].seq)

ScoreColumn ==
    /\ pc = "columns"
    /\ i < AlignmentLength
    /\ \E rounding \in Roundings(ColumnAcc(i)) :
         LET r == ColumnResult(i, rounding)
         IN  IF r.exc = ""
             THEN /\ out_fh' = Append(out_fh, r.line)
                  /\ i' = i + 3
                  /\ pc' = pc
             ELSE /\ pc' = r.exc
                  /\ UNCHANGED <<out_fh, i>>
    /\ UNCHANGED <<alignments, nfiles, vsl2, disorder_strength, disorder_letters>>

CloseOutput ==
    /\ pc = "columns"
    /\ i >= AlignmentLength
    /\ pc' = "closed"
    /\ UNCHANGED <<alignments, nfiles, vsl2, disorder_strength, disorder_letters, out_fh, i>>

Next == BuildTrack \/ OpenOutput \/ ScoreColumn \/ CloseOutput

(***************************************************************************)
(* Initial states.                                                         *)
(***************************************************************************)
\* the taxonomy ID in the header of row j
TaxOfRow(j) == IF j % 2 = 1 THEN "9606" ELSE "10090"

\* the alignment whose row j holds the codons m[j]
AlignmentOf(m) == [j \in DOMAIN m |-> [tax_id |-> TaxOfRow(j), seq |-> m[j]]]

\* a predictor that answers by row and residue parity
FixedPred(rows, cols) ==
    [j \in 1..rows |-> [r \in 1..cols |->
        IF (j + r) % 2 = 0 THEN <<8, "D">> ELSE <<2, ".">>]]

MainCodons == {"---", "ATG", "ATA"}

ColCodons == {"...", "---", "NNN", "ATG", "ATA", "AAA", "TGG", "TAA"}

TrackCodons == {"...", "---", "NNN", "ATG", "TAA"}

PredVals == {2, 8} \X {"D", "."}

Start ==
    /\ disorder_strength = <<>>
    /\ disorder_letters = <<>>
    /\ out_fh = <<>>
    /\ i = 0
    /\ pc = "tracks"

\* the usage directories: all in order, that of 9606 without a *_dist.csv file,
\* or that of 10090 with two of them
UsageDirs ==
    {[t \in TaxIds |-> 1],
     [t \in TaxIds |-> IF t = "9606" THEN 0 ELSE 1],
     [t \in TaxIds |-> IF t = "10090" THEN 2 ELSE 1]}

\* alignments of up to MaxRows sequences and MaxCols codon columns
Init ==
    /\ \E rows \in 1..MaxRows, cols \in 1..MaxCols :
          /\ \E m \in [1..rows -> [1..cols -> MainCodons]] : alignments = AlignmentOf(m)
          /\ vsl2 = FixedPred(rows, cols)
    /\ nfiles \in UsageDirs
    /\ Start

Spec == Init /\ [][Next]_vars

\* one-column alignments of up to MaxColRows sequences, all usage data in place
InitCol ==
    /\ \E rows \in 1..MaxColRows :
          /\ \E m \in [1..rows -> [1..1 -> ColCodons]] : alignments = AlignmentOf(m)
          /\ vsl2 = FixedPred(rows, 1)
    /\ nfiles = [t \in TaxIds |-> 1]
    /\ Start

SpecCol == InitCol /\ [][Next]_vars

\* one sequence of up to MaxCodons codons and any answer of the predictor
InitTrack ==
    /\ \E cols \in 1..MaxCodons :
          \E s \in [1..cols -> TrackCodons] :
             /\ alignments = AlignmentOf(<<s>>)
             /\ \E f \in [1..Len(aa_seq(s)) -> PredVals] : vsl2 = <<f>>
    /\ nfiles = [t \in TaxIds |-> 1]
    /\ Start

SpecTrack == InitTrack /\ [][BuildTrack]_vars

(***************************************************************************)
(* Vocabulary of the properties, read off the alignment itself.            *)
(***************************************************************************)
NumRows == Len(alignments)

NumCols == Len(alignments[1].seq)

CodonAt(j, n) == alignments[j].seq[n]

IsBad(codon) == codon \in {"...", "---", "NNN"}

BadRows(n) == {j \in 1..NumRows : IsBad(CodonAt(j, n))}

GoodRows(n) == (1..NumRows) \ BadRows(n)

AaCount(a, n) == Cardinality({j \in GoodRows(n) : tt_11[CodonAt(j, n)] = a})

\* the largest occurrence count of an amino acid in column n (0 without good rows)
MaxAaCount(n) ==
    IF GoodRows(n) = {} THEN 0
    ELSE CHOOSE c \in 1..NumRows :
            /\ \E j \in GoodRows(n) : AaCount(tt_11[CodonAt(j, n)], n) = c
            /\ \A j \in GoodRows(n) : AaCount(tt_11[CodonAt(j, n)], n) <= c

\* the error bucket is at least as full as every amino acid
ErrorBucketWins(n) == Cardinality(BadRows(n)) >= MaxAaCount(n)

\* the most frequent amino acid, the one met in the lowest row among equals
FirstMaxAa(n) ==
    LET top == {j \in GoodRows(n) : AaCount(tt_11[CodonAt(j, n)], n) = MaxAaCount(n)}
        first == CHOOSE j \in top : \A k \in top : j <= k
    IN  tt_11[CodonAt(first, n)]

\* some good row of column n belongs to a taxonomy ID without exactly one file
MissingIn(n) == \E j \in GoodRows(n) : nfiles[alignments[j].tax_id] # 1

Written(n) == Len(out_fh) > n

Line(n) == out_fh[n + 1]

IsPlaceholderLine(l) == Len(l) = 13 /\ \A k \in 1..13 : l[k] = <<"X">>

Scored(l) == l[1][1] = "aa"

\* the float f equals p/q
FracEq(f, p, q) == f[1] = "frac" /\ f[2] * q = p * f[3]

Died == pc \notin {"tracks", "open", "columns", "closed"}

\* the run died while it processed column n
DiedIn(n) == Died /\ i = 3 * (n - 1)

(***************************************************************************)
(* C1.  A codon column in which every row holds a bad codon ('...', '---'  *)
(* or 'NNN') is written as the all-placeholder row, X in each of the 13    *)
(* fields, whatever the number of sequences; the run does not die there.   *)
(***************************************************************************)
C1_AllBadColumnIsPlaceholder ==
    \A n \in 1..NumCols :
        GoodRows(n) = {} =>
            /\ ~DiedIn(n)
            /\ Written(n) => IsPlaceholderLine(Line(n))

C1_Witness ==
    /\ pc = "closed"
    /\ NumRows = 3
    /\ CodonAt(1, 1) = "..." /\ CodonAt(2, 1) = "---" /\ CodonAt(3, 1) = "NNN"
    /\ IsPlaceholderLine(Line(1))

(***************************************************************************)
(* C2.  The report is the header line followed by one line per codon       *)
(* column in column-offset order: while columns are scored it holds the    *)
(* lines of the columns before offset i, a completed run holds exactly     *)
(* L/3 of them, line n is the row of column n (placeholder exactly when    *)
(* the error bucket wins, else carrying that column's identity and         *)
(* fraction aligned), and every line has 13 fields.                        *)
(***************************************************************************)
IsRowOfColumn(l, n) ==
    /\ Len(l) = 13
    /\ IF ErrorBucketWins(n) THEN IsPlaceholderLine(l)
       ELSE /\ l[1] = <<"aa", FirstMaxAa(n)>>
            /\ FracEq(l[11], Cardinality(GoodRows(n)), NumRows)

C2_ReportInColumnOrder ==
    /\ out_fh # <<>> =>
          /\ out_fh[1] = Header
          /\ Len(Header) = 13
          /\ Len(out_fh) = 1 + i \div 3
          /\ \A n \in 1..(Len(out_fh) - 1) : IsRowOfColumn(Line(n), n)
    /\ pc = "closed" => Len(out_fh) = 1 + NumCols

C2_Witness ==
    /\ pc = "closed"
    /\ NumCols = 2
    /\ Len(out_fh) = 3
    /\ Line(1) = PlaceholderRow
    /\ Line(2)[1] = <<"aa", "I">>

(***************************************************************************)
(* C3.  Every disorder track built for a sequence of n codons with bad     *)
(* offsets B has length n, holds the sentinel '-' at exactly the offsets   *)
(* of B, and at every other offset p holds the predictor's value for the   *)
(* residue numbered p minus the number of bad offsets below p.             *)
(***************************************************************************)
TrackAligned(j) ==
    LET seq == alignments[j].seq
        n == Len(seq)
        B == {p \in 0..(n - 1) : IsBad(seq[p + 1])}
        strength == disorder_strength[j]
        letters == disorder_letters[j]
    IN  /\ Len(strength) = n
        /\ Len(letters) = n
        /\ \A p \in 0..(n - 1) :
              IF p \in B
              THEN strength[p + 1] = <<"-">> /\ letters[p + 1] = "-"
              ELSE LET r == p - Cardinality({b \in B : b < p}) + 1
                   IN  /\ strength[p + 1] = <<"float", vsl2[j][r][1]>>
                       /\ letters[p + 1] = vsl2[j][r][2]

C3_TracksRealigned ==
    /\ Len(disorder_strength) = Len(disorder_letters)
    /\ \A j \in 1..Len(disorder_strength) : TrackAligned(j)

C3_Witness ==
    /\ Len(disorder_strength) = 1
    /\ alignments[1].seq = <<"---", "ATG", "TAA", "NNN">>
    /\ disorder_strength[1] = << <<"-">>, <<"float", 8>>, <<"float", 2>>, <<"-">> >>
    /\ disorder_letters[1] = <<"-", "D", ".", "-">>

(***************************************************************************)
(* C4.  A column with exactly one good row that is not degenerate is       *)
(* written with the placeholder as its Avg Blosum62 Score; no division by  *)
(* zero ends the run there.                                                *)
(***************************************************************************)
C4_SingleGoodRowIsWritten ==
    \A n \in 1..NumCols :
        (Cardinality(GoodRows(n)) = 1 /\ ~ErrorBucketWins(n)) =>
            /\ ~DiedIn(n)
            /\ Written(n) => Line(n)[3] = <<"X">>

(***************************************************************************)
(* C5.  A column whose most frequent bucket is the error bucket (ties go   *)
(* to the error bucket) is written as the placeholder row without any      *)
(* usage lookup or matrix lookup that could fail: the run never dies in    *)
(* such a column.                                                          *)
(***************************************************************************)
C5_DegenerateColumnNeverAborts ==
    \A n \in 1..NumCols :
        ErrorBucketWins(n) =>
            /\ ~DiedIn(n)
            /\ Written(n) => IsPlaceholderLine(Line(n))

(***************************************************************************)
(* C6, as stated.  When the run aborts because the codon-usage data of a   *)
(* taxonomy ID is missing or ambiguous, no part of the report has been     *)
(* written.                                                                *)
(***************************************************************************)
C6_AbortBeforeAnyOutput == pc = "exit" => out_fh = <<>>

(***************************************************************************)
(* C6, amended.  The usage data is looked up column by column: a column    *)
(* with a good row whose taxonomy ID lacks its one file is never written,  *)
(* and when the run aborts for that reason the header and the lines of     *)
(* all earlier columns have already been written and nothing after them;   *)
(* a run that completes holds the full report.                             *)
(***************************************************************************)
C6_AbortLeavesPartialReport ==
    /\ \A n \in 1..NumCols : Written(n) => ~MissingIn(n)
    /\ pc = "exit" =>
          /\ out_fh # <<>>
          /\ out_fh[1] = Header
          /\ Len(out_fh) = 1 + i \div 3
          /\ MissingIn(i \div 3 + 1)
    /\ pc = "closed" => Len(out_fh) = 1 + NumCols

C6_Witness ==
    /\ pc = "exit"
    /\ NumRows = 2
    /\ NumCols = 2
    /\ i = 3
    /\ Len(out_fh) = 2
    /\ IsPlaceholderLine(Line(1))
    /\ CodonAt(2, 2) = "ATG"
    /\ nfiles[alignments[2].tax_id] = 2

(***************************************************************************)
(* C7.  In every scored column Identity is the amino acid with the largest *)
(* count among the good rows, the one first met in the lowest row among    *)
(* equals; Percent Identity is count(Identity)/good_rows and Fraction      *)
(* Aligned is good_rows/total_rows.                                        *)
(***************************************************************************)
C7_IdentityAndFractions ==
    \A n \in 1..NumCols :
        (Written(n) /\ Scored(Line(n))) =>
            /\ Line(n)[1] = <<"aa", FirstMaxAa(n)>>
            /\ FracEq(Line(n)[2], AaCount(FirstMaxAa(n), n), Cardinality(GoodRows(n)))
            /\ FracEq(Line(n)[11], Cardinality(GoodRows(n)), NumRows)

\* codons [ATG, ATG, ATA, ---] give M, 2/3 and 3/4
C7_Witness ==
    /\ pc = "closed"
    /\ NumRows = 4
    /\ CodonAt(1, 1) = "ATG" /\ CodonAt(2, 1) = "ATG"
    /\ CodonAt(3, 1) = "ATA" /\ CodonAt(4, 1) = "---"
    /\ Line(1)[1] = <<"aa", "M">>
    /\ Line(1)[2] = <<"frac", 2, 3>>
    /\ Line(1)[11] = <<"frac", 3, 4>>

(***************************************************************************)
(* C8.  In every scored column running_blosum_score is the sum of the      *)
(* matrix score over the unordered pairs of good rows, each pair once      *)
(* under whichever of its two keys the matrix holds, so every order of     *)
(* the rows gives the written Avg Blosum62 Score.                          *)
(***************************************************************************)
\* the permutations of 1..n
PermsOf == [n \in 1..MaxColRows |->
               {f \in [1..n -> 1..n] : \A a, b \in 1..n : a # b => f[a] # f[b]}]

\* the score of the pair under the key the matrix holds
SymScore(a, b) == IF <<a, b>> \in DOMAIN matrix THEN matrix[<<a, b>>] ELSE matrix[<<b, a>>]

UnorderedPairSum(column) ==
    LET pairs == {q \in (1..Len(column)) \X (1..Len(column)) :
                     q[1] < q[2] /\ ~IsBad(column[q[1]]) /\ ~IsBad(column[q[2]])}
    IN  SumSet(pairs, [q \in pairs |-> SymScore(tt_11[column[q[1]]], tt_11[column[q[2]]])])

\* what the row loop accumulates in running_blosum_score over the rows of column
RECURSIVE RunningBlosum(_, _)
RunningBlosum(column, j) ==
    IF j > Len(column) THEN [exc |-> "", score |-> 0]
    ELSE IF IsBad(column[j]) THEN RunningBlosum(column, j + 1)
    ELSE LET here == PairLoop(column, j + 1, tt_11[column[j]])
             rest == RunningBlosum(column, j + 1)
         IN  IF here.exc # "" THEN here
             ELSE IF rest.exc # "" THEN rest
             ELSE [exc |-> "", score |-> here.score + rest.score]

C8_BlosumRowOrderInvariant ==
    \A n \in 1..NumCols :
        (pc = "closed" /\ Scored(Line(n))) =>
            LET column == [j \in 1..NumRows |-> CodonAt(j, n)]
                g == Cardinality(GoodRows(n))
                comparisons == (g * (g - 1)) \div 2
            IN  /\ Line(n)[3] = Frac(UnorderedPairSum(column), comparisons)
                /\ \A f \in PermsOf[NumRows] :
                      LET permuted == [j \in 1..NumRows |-> column[f[j]]]
                          sum == RunningBlosum(permuted, 1)
                      IN  /\ sum.exc = ""
                          /\ Frac(sum.score, comparisons) = Line(n)[3]

\* I above M: the key (I, M) is missing and (M, I) is used
C8_Witness ==
    /\ pc = "closed"
    /\ NumRows = 3
    /\ CodonAt(1, 1) = "ATA" /\ CodonAt(2, 1) = "ATG" /\ CodonAt(3, 1) = "TGG"
    /\ Line(1)[3] = <<"frac", -1, 1>>

(***************************************************************************)
(* C9, as stated.  In a scored column whose good rows are all ATG and      *)
(* whose two average log ratios are both 0.0, Relative Difference is 0.0;  *)
(* in every other case it is difference / avg_log_expected_freq_ratio.     *)
(***************************************************************************)
Zero == <<"frac", 0, 1>>

BothZero(l) == l[7] = Zero /\ l[8] = Zero

AllGoodATG(n) == \A j \in GoodRows(n) : CodonAt(j, n) = "ATG"

C9_ZeroOnlyForMethionine ==
    \A n \in 1..NumCols :
        (Written(n) /\ Scored(Line(n))) =>
            IF AllGoodATG(n) /\ BothZero(Line(n))
            THEN Line(n)[9] = Zero
            ELSE Line(n)[9] = <<"quot", Line(n)[10], Line(n)[8]>>

(***************************************************************************)
(* C9, amended.  In a scored column whose two average log ratios are both  *)
(* the float 0.0 Relative Difference is exactly 0.0 and nothing is         *)
(* divided, whatever the codons (all ATG, but also all TGG, or ATG next to *)
(* TGG); in every other case, a sum of logs left with a rounding residue   *)
(* included, it is difference / avg_log_expected_freq_ratio.  An all-ATG   *)
(* column has both averages 0.0.                                           *)
(***************************************************************************)
C9_ZeroWheneverBothAveragesZero ==
    \A n \in 1..NumCols :
        (Written(n) /\ Scored(Line(n))) =>
            /\ IF BothZero(Line(n))
               THEN Line(n)[9] = Zero
               ELSE Line(n)[9] = <<"quot", Line(n)[10], Line(n)[8]>>
            /\ AllGoodATG(n) => BothZero(Line(n))

C9_Witness ==
    /\ pc = "closed"
    /\ NumRows = 3
    /\ AllGoodATG(1)
    /\ Cardinality(GoodRows(1)) = 2
    /\ Line(1)[1] = <<"aa", "M">>
    /\ BothZero(Line(1))
    /\ Line(1)[9] = Zero

(***************************************************************************)
(* C10.  In every scored column the Identity amino acid occurs strictly    *)
(* more often than there are bad rows, so more than half of the rows are   *)
(* good and Fraction Aligned exceeds 1/2; a column whose bad rows are at   *)
(* least as many as its most frequent amino acid is always written as the  *)
(* placeholder row: the run does not die in it, and the line written for   *)
(* it is the placeholder row.                                              *)
(***************************************************************************)
C10_IdentityOutnumbersBadRows ==
    \A n \in 1..NumCols :
        /\ (Written(n) /\ Scored(Line(n))) =>
              /\ AaCount(Line(n)[1][2], n) > Cardinality(BadRows(n))
              /\ 2 * Cardinality(GoodRows(n)) > NumRows
              /\ Line(n)[11][1] = "frac"
              /\ 2 * Line(n)[11][2] > Line(n)[11][3]
        /\ ErrorBucketWins(n) =>
              /\ ~DiedIn(n)
              /\ Written(n) => IsPlaceholderLine(Line(n))

====
